---- MODULE Spec2Model ----
(***************************************************************************)
(* goloadenv: LoadEnv populates a struct from environment variables,       *)
(* driven by the `env` struct tag.                                         *)
(*                                                                         *)
(* Strings are sequences of glyphs.  A glyph is either a single byte       *)
(* (";", ":", "[", "]", ",", " ", a digit "1".."9", "s", "x") or a word    *)
(* of several bytes none of which is one of those ("A", "default",         *)
(* "WARN", ...).  Strings that reach parseArrayString are built from       *)
(* single-byte glyphs only, so Len counts bytes there.                     *)
(*                                                                         *)
(* An error value is a sequence of frames, outermost first; Nil (the       *)
(* empty sequence) is Go's nil error.  fmt.Errorf("...: %w", err) puts a   *)
(* frame in front of err.  A panic is the one-frame sequence Panic(msg),   *)
(* which unwinds unchanged through every caller.                           *)
(***************************************************************************)
EXTENDS Integers, Sequences, FiniteSets, TLC

VARIABLES
    tagNames,   \* var tagNames: the set of tag names seen so far
    envTypes,   \* var envTypes: the types that have a registered unmarshaller
    environ,    \* the process environment: key -> string ("" when unset)
    config,     \* the struct type the caller declares and passes to LoadEnv
    call        \* the caller's view of its latest LoadEnv call

vars == <<tagNames, envTypes, environ, config, call>>

\* ------------------------------------------------------------- bounds

MaxFields == 2
MaxElems == 3
MaxCap == 3
MaxTagLen == 5

\* ------------------------------------------------------------- strings

Nil == <<>>
EmptyStr == <<>>

Digits == {"1", "2", "3", "4", "5", "6", "7", "8", "9"}

DigitVal(g) ==
    CASE g = "1" -> 1 [] g = "2" -> 2 [] g = "3" -> 3 [] g = "4" -> 4
      [] g = "5" -> 5 [] g = "6" -> 6 [] g = "7" -> 7 [] g = "8" -> 8
      [] g = "9" -> 9

NameKey == <<"name">>
DefaultKey == <<"default">>
OptionalKey == <<"optional">>

\* ---------------------------------------------------------------- errors

Panic(msg) == <<[kind |-> "panic", msg |-> msg]>>

IsPanic(err) == err # Nil /\ err[1].kind = "panic"

NotPtrError == <<[kind |-> "errorString", msg |-> "config must be a pointer to a struct"]>>

EnvNotFoundError(env) == <<[kind |-> "EnvNotFoundError", env |-> env]>>

EnvParseError(value, env, cause) ==
    <<[kind |-> "EnvParseError", value |-> value, env |-> env, err |-> cause]>>

DuplicateTag(item) == <<[kind |-> "duplicate tag", item |-> item]>>

GetTagsWrap(fieldName, err) ==
    <<[kind |-> "error getting tags for field", field |-> fieldName]>> \o err

NestedWrap(fieldName, err) ==
    <<[kind |-> "error loading nested struct", field |-> fieldName]>> \o err

Cause(msg) == [msg |-> msg]

Overflow(expected, got) ==
    [msg |-> "array size overflow", expected |-> expected, got |-> got]

\* ------------------------------------------------------------ tag parser

SplitTags(r) == r = ";" \/ r = ":"

RECURSIVE FieldsFuncFrom(_, _, _)
FieldsFuncFrom(s, i, cur) ==
    IF i > Len(s) THEN (IF cur = <<>> THEN <<>> ELSE <<cur>>)
    ELSE IF SplitTags(s[i])
         THEN (IF cur = <<>> THEN <<>> ELSE <<cur>>) \o FieldsFuncFrom(s, i + 1, <<>>)
         ELSE FieldsFuncFrom(s, i + 1, Append(cur, s[i]))

\* strings.FieldsFunc(s, SplitTags): the maximal runs of non-separators
FieldsFunc(s) == FieldsFuncFrom(s, 1, <<>>)

\* m[k] of a Go map[string]string: "" when k is absent
Get(m, k) == IF k \in DOMAIN m THEN m[k] ELSE EmptyStr

Put(m, k, v) == [x \in DOMAIN m \cup {k} |-> IF x = k THEN v ELSE m[x]]

EmptyMap == [x \in {} |-> EmptyStr]

\* the name is checked against the registry and never added to it
record_Forget(names, item) == names

\* tagNames[item] = struct{}{}
record(names, item) == names \cup {item}

RECURSIVE tagLoop(_, _, _, _)
tagLoop(slice, index, m, names) ==
    IF index > Len(slice) THEN [m |-> m, names |-> names, err |-> Nil]
    ELSE LET item == slice[index] IN
         IF index = 1
         THEN IF item \in names
              THEN [m |-> EmptyMap, names |-> names, err |-> DuplicateTag(item)]
              ELSE tagLoop(slice, index + 1, Put(m, NameKey, item), record(names, item))
         ELSE IF item = DefaultKey
         THEN IF item \in DOMAIN m
              THEN [m |-> EmptyMap, names |-> names, err |-> DuplicateTag(item)]
              ELSE IF index + 1 > Len(slice)
              THEN [m |-> m, names |-> names, err |-> Panic("index out of range")]
              ELSE tagLoop(slice, index + 2, Put(m, item, slice[index + 1]), names)
         ELSE tagLoop(slice, index + 1, Put(m, item, EmptyStr), names)

\* tagSliceToKeyMap with the registry tagNames passed in and handed back
tagSliceToKeyMap(slice, names) == tagLoop(slice, 1, EmptyMap, names)

getTags(tag, names) == tagSliceToKeyMap(FieldsFunc(tag), names)

\* ----------------------------------------------------------------- types

IntT == [kind |-> "int", tid |-> "int"]
StringT == [kind |-> "string", tid |-> "string"]
\* type CustomMapType map[string]string: a type fmt cannot scan
CustomMapType == [kind |-> "map", tid |-> "CustomMapType"]
\* slog.Level, an int kind with a registered unmarshaller
LevelT == [kind |-> "int", tid |-> "slog.Level"]
\* a caller's int-kind type that implements EnvTypeInterface
DurationT == [kind |-> "int", tid |-> "Duration"]

SliceT(elem) == [kind |-> "slice", elem |-> elem]
ArrayT(n, elem) == [kind |-> "array", cap |-> n, elem |-> elem]
StructT(tid, fields) == [kind |-> "struct", tid |-> tid, fields |-> fields]

\* reflect.StructField: the declared name, the env tag, the type, and
\* whether the field is exported (an unexported field cannot be set)
Field(name, tag, type) == [name |-> name, tag |-> tag, type |-> type, exported |-> TRUE]
Unexported(name, tag, type) == [name |-> name, tag |-> tag, type |-> type, exported |-> FALSE]

\* a caller's struct-kind type that implements EnvTypeInterface
EndpointT == StructT("Endpoint", <<Field("Host", EmptyStr, StringT)>>)

RECURSIVE Zero(_)
Zero(type) ==
    CASE type.kind = "int" -> 0
      [] type.kind = "string" -> EmptyStr
      [] type.kind = "map" -> EmptyStr
      [] type.kind = "slice" -> <<>>
      [] type.kind = "array" -> [i \in 1..type.cap |-> Zero(type.elem)]
      [] type.kind = "struct" -> [i \in 1..Len(type.fields) |-> Zero(type.fields[i].type)]

\* ----------------------------------------------------------- conversion

RECURSIVE SkipSpace(_, _)
SkipSpace(s, i) == IF i <= Len(s) /\ s[i] = " " THEN SkipSpace(s, i + 1) ELSE i

RECURSIVE DigitRun(_, _, _)
\* the value of the decimal digits of s from position i on, after acc
DigitRun(s, i, acc) ==
    IF i <= Len(s) /\ s[i] \in Digits THEN DigitRun(s, i + 1, acc * 10 + DigitVal(s[i]))
    ELSE acc

\* fmt.Sscan into an int: leading space is skipped, then a run of digits is
\* read; what follows the digits is left unread and is no error
ScanInt(s) ==
    LET i == SkipSpace(s, 1) IN
    IF i > Len(s) THEN [value |-> 0, err |-> Cause("unexpected EOF")]
    ELSE IF s[i] \notin Digits THEN [value |-> 0, err |-> Cause("expected integer")]
    ELSE [value |-> DigitRun(s, i, 0), err |-> Nil]

RECURSIVE TokenEnd(_, _)
TokenEnd(s, i) == IF i <= Len(s) /\ s[i] # " " THEN TokenEnd(s, i + 1) ELSE i

\* fmt.Sscan into a string: the first space-delimited token
ScanString(s) ==
    LET i == SkipSpace(s, 1) IN
    IF i > Len(s) THEN [value |-> EmptyStr, err |-> Cause("unexpected EOF")]
    ELSE [value |-> SubSeq(s, i, TokenEnd(s, i) - 1), err |-> Nil]

Sscan(str, type) ==
    CASE type.kind = "int" -> ScanInt(str)
      [] type.kind = "string" -> ScanString(str)
      [] OTHER -> [value |-> Zero(type), err |-> Cause("can't scan type")]

\* slog.Level.UnmarshalText on a bare level name
UnmarshalEnvSlogLevel(string) ==
    CASE string = <<"DEBUG">> -> [value |-> 0 - 4, err |-> Nil]
      [] string = <<"INFO">> -> [value |-> 0, err |-> Nil]
      [] string = <<"WARN">> -> [value |-> 4, err |-> Nil]
      [] string = <<"ERROR">> -> [value |-> 8, err |-> Nil]
      [] OTHER -> [value |-> 0, err |-> Cause("slog: level string: unknown name")]

\* Duration.UnmarshalEnv: "<digits>s" is that many seconds, in milliseconds
UnmarshalEnvDuration(string) ==
    IF /\ Len(string) >= 2
       /\ string[Len(string)] = "s"
       /\ \A i \in 1..(Len(string) - 1) : string[i] \in Digits
    THEN [value |-> 1000 * DigitRun(string, 1, 0), err |-> Nil]
    ELSE [value |-> 0, err |-> Cause("invalid duration")]

\* Endpoint.UnmarshalEnv: a string without spaces is the endpoint's host
UnmarshalEnvEndpoint(string) ==
    IF \A i \in 1..Len(string) : string[i] # " "
    THEN [value |-> <<string>>, err |-> Nil]
    ELSE [value |-> <<EmptyStr>>, err |-> Cause("invalid endpoint")]

\* envTypes[t]: the unmarshaller registered for type t
Unmarshaller(tid, str) ==
    CASE tid = "slog.Level" -> UnmarshalEnvSlogLevel(str)
      [] tid = "Duration" -> UnmarshalEnvDuration(str)
      [] tid = "Endpoint" -> UnmarshalEnvEndpoint(str)

\* ------------------------------------------------------------ resolution

\* os.Getenv: "" for a key that is not set
Getenv(key) == IF key \in DOMAIN environ THEN environ[key] ELSE EmptyStr

\* getField with the default consulted before the environment
getField_DefaultFirst(tags) ==
    LET str == Getenv(Get(tags, NameKey)) IN
    IF DefaultKey \in DOMAIN tags THEN [str |-> tags[DefaultKey], err |-> Nil]
    ELSE IF str # EmptyStr THEN [str |-> str, err |-> Nil]
    ELSE IF OptionalKey \notin DOMAIN tags
         THEN [str |-> EmptyStr, err |-> EnvNotFoundError(Get(tags, NameKey))]
         ELSE [str |-> EmptyStr, err |-> Nil]

getField(tags) ==
    LET str == Getenv(Get(tags, NameKey)) IN
    IF str # EmptyStr THEN [str |-> str, err |-> Nil]
    ELSE IF DefaultKey \in DOMAIN tags THEN [str |-> tags[DefaultKey], err |-> Nil]
    ELSE IF OptionalKey \notin DOMAIN tags
         THEN [str |-> EmptyStr, err |-> EnvNotFoundError(Get(tags, NameKey))]
         ELSE [str |-> EmptyStr, err |-> Nil]

\* ------------------------------------------------------------ population

\* setField: cur is the field's value before, canSet is field.CanSet()
setField(type, canSet, cur, str, tags) ==
    IF ~canSet
    THEN [val |-> cur, err |-> EnvParseError(str, Get(tags, NameKey), Cause("field cannot be set"))]
    ELSE IF type.tid \in envTypes
    THEN LET u == Unmarshaller(type.tid, str) IN
         IF u.err # Nil
         THEN [val |-> cur, err |-> EnvParseError(str, Get(tags, NameKey), u.err)]
         ELSE [val |-> u.value, err |-> Nil]
    ELSE LET u == Sscan(str, type) IN
         IF u.err # Nil
         THEN [val |-> cur, err |-> EnvParseError(str, Get(tags, NameKey), u.err)]
         ELSE [val |-> u.value, err |-> Nil]

RECURSIVE SplitFrom(_, _, _, _)
SplitFrom(s, sep, i, cur) ==
    IF i > Len(s) THEN <<cur>>
    ELSE IF s[i] = sep THEN <<cur>> \o SplitFrom(s, sep, i + 1, <<>>)
    ELSE SplitFrom(s, sep, i + 1, Append(cur, s[i]))

\* strings.Split(s, sep): always at least one element
Split(s, sep) == SplitFrom(s, sep, 1, <<>>)

parseArrayString(str) ==
    IF Len(str) < 2 \/ (str[1] # "[" /\ str[Len(str)] # "]")
    THEN [values |-> <<>>, err |-> Cause("invalid array format")]
    ELSE [values |-> Split(SubSeq(str, 2, Len(str) - 1), ","), err |-> Nil]

RECURSIVE setElements(_, _, _, _, _, _)

\* the element loop converting the remaining elements after a failure
setElements_KeepGoing(type, canSet, cur, strValues, tags, i) ==
    IF i > Len(strValues) THEN [val |-> cur, err |-> Nil]
    ELSE IF i > Len(cur)
    THEN [val |-> cur, err |-> Panic("reflect: array index out of range")]
    ELSE LET r == setField(type.elem, canSet, cur[i], strValues[i], tags)
             rest == setElements(type, canSet, [cur EXCEPT ![i] = r.val], strValues, tags, i + 1)
         IN  IF r.err # Nil /\ ~IsPanic(rest.err) THEN [rest EXCEPT !.err = r.err] ELSE rest

\* the loop of setIterableField, from index i (1-based) on
setElements(type, canSet, cur, strValues, tags, i) ==
    IF i > Len(strValues) THEN [val |-> cur, err |-> Nil]
    ELSE IF i > Len(cur)
    THEN [val |-> cur, err |-> Panic("reflect: array index out of range")]
    ELSE LET r == setField(type.elem, canSet, cur[i], strValues[i], tags) IN
         IF r.err # Nil THEN [val |-> [cur EXCEPT ![i] = r.val], err |-> r.err]
         ELSE setElements(type, canSet, [cur EXCEPT ![i] = r.val], strValues, tags, i + 1)

setIterableField(type, canSet, cur, str, tags) ==
    IF ~canSet
    THEN [val |-> cur, err |-> EnvParseError(str, Get(tags, NameKey), Cause("field cannot be set"))]
    ELSE IF type.kind # "slice" /\ type.kind # "array"
    THEN [val |-> cur, err |-> EnvParseError(str, Get(tags, NameKey), Cause("field is not a slice or array"))]
    ELSE LET maxLength == IF type.kind = "array" THEN type.cap ELSE 0
             p == parseArrayString(str)
         IN  IF p.err # Nil
             THEN [val |-> cur, err |-> EnvParseError(str, Get(tags, NameKey), p.err)]
             ELSE IF maxLength > 0 /\ Len(p.values) > maxLength
             THEN [val |-> cur,
                   err |-> EnvParseError(str, Get(tags, NameKey), Overflow(maxLength, Len(p.values)))]
             ELSE LET made == IF type.kind = "slice"
                              THEN [i \in 1..Len(p.values) |-> Zero(type.elem)]
                              ELSE cur
                  IN  setElements(type, canSet, made, p.values, tags, 1)

\* ---------------------------------------------------------------- walker

RECURSIVE LoadEnv(_, _, _, _)
RECURSIVE loadFields(_, _, _, _)

\* the nested error naming the struct field itself
nestedFieldName_Outer(f) == f.name

\* val.Field(i).Type().Field(0).Name: the name the nested error carries
nestedFieldName(f) == f.type.fields[1].name

\* one pass of LoadEnv's loop body, for field i; val is the struct's value.
\* err = Nil is `continue`, anything else is what LoadEnv returns
loadField(type, val, names, i) ==
    LET f == type.fields[i]
        t == getTags(f.tag, names)
    IN
    IF IsPanic(t.err) THEN [val |-> val, names |-> t.names, err |-> t.err]
    ELSE IF t.err # Nil
    THEN [val |-> val, names |-> t.names, err |-> GetTagsWrap(f.name, t.err)]
    ELSE IF f.type.kind = "struct"
    THEN IF ~f.exported
         THEN [val |-> val, names |-> t.names,
               err |-> Panic("reflect.Value.Interface: unexported field")]
         ELSE LET r == LoadEnv(TRUE, f.type, val[i], t.names)
                  v == [val EXCEPT ![i] = r.val]
              IN  IF IsPanic(r.err) \/ r.err = Nil
                  THEN [val |-> v, names |-> r.names, err |-> r.err]
                  ELSE [val |-> v, names |-> r.names,
                        err |-> NestedWrap(nestedFieldName(f), r.err)]
    ELSE IF Get(t.m, NameKey) = EmptyStr
    THEN [val |-> val, names |-> t.names, err |-> Nil]
    ELSE LET g == getField(t.m) IN
         IF g.err # Nil THEN [val |-> val, names |-> t.names, err |-> g.err]
         ELSE IF g.str = EmptyStr THEN [val |-> val, names |-> t.names, err |-> Nil]
         ELSE LET s == IF f.type.kind = "slice" \/ f.type.kind = "array"
                       THEN setIterableField(f.type, f.exported, val[i], g.str, t.m)
                       ELSE setField(f.type, f.exported, val[i], g.str, t.m)
              IN  [val |-> [val EXCEPT ![i] = s.val], names |-> t.names, err |-> s.err]

\* the loop going on after a failed field and returning the error at the end
loadFields_KeepGoing(type, val, names, i) ==
    IF i > Len(type.fields) THEN [val |-> val, names |-> names, err |-> Nil]
    ELSE LET r == loadField(type, val, names, i)
             rest == loadFields(type, r.val, r.names, i + 1)
         IN  IF r.err # Nil /\ rest.err = Nil THEN [rest EXCEPT !.err = r.err] ELSE rest

\* LoadEnv's loop `for i := 0; i < val.NumField(); i++`, from field i on
loadFields(type, val, names, i) ==
    IF i > Len(type.fields) THEN [val |-> val, names |-> names, err |-> Nil]
    ELSE LET r == loadField(type, val, names, i) IN
         IF r.err # Nil THEN r
         ELSE loadFields(type, r.val, r.names, i + 1)

\* LoadEnv checking only that what it is given is of struct kind
LoadEnv_KindOnly(isPtr, type, val, names) ==
    IF type.kind # "struct"
    THEN [val |-> val, names |-> names, err |-> NotPtrError]
    ELSE loadFields(type, val, names, 1)

\* LoadEnv(config): isPtr says whether config is a pointer, type is the type
\* it points to (or the type of the value passed), val the value there and
\* names the registry tagNames; the result carries val and names afterwards
LoadEnv(isPtr, type, val, names) ==
    IF ~isPtr \/ type.kind # "struct"
    THEN [val |-> val, names |-> names, err |-> NotPtrError]
    ELSE loadFields(type, val, names, 1)

\* ------------------------------------------------------ callers' structs

\* the environment variables the callers' tags name
EnvKeys == {<<"A">>, <<"B">>}

Tag(name) == name
TagOptional(name) == name \o <<";", "optional">>
TagDefault(name, value) == name \o <<";", "default", ":">> \o value

\* field declarations without their names: <<tag, type>>
ScalarDecls ==
    { <<Tag(<<"A">>), IntT>>,
      <<TagOptional(<<"A">>), IntT>>,
      <<TagDefault(<<"A">>, <<"5">>), IntT>>,
      <<Tag(<<"B">>), StringT>>,
      <<TagDefault(<<"B">>, <<"x">>), IntT>>,
      <<TagOptional(<<"B">>), CustomMapType>>,
      <<EmptyStr, IntT>> }

FieldNames == <<"F1", "F2", "F3", "F4">>
InnerNames == <<"G1", "G2", "G3", "G4">>

MakeStruct(tid, decls, fieldNames) ==
    StructT(tid, [i \in 1..Len(decls) |-> Field(fieldNames[i], decls[i][1], decls[i][2])])

\* nested struct types, declared without a tag of their own
NestedDecls ==
    { <<EmptyStr, MakeStruct("Inner", d, InnerNames)>> :
        d \in { <<<<Tag(<<"A">>), IntT>>>>,
                <<<<TagOptional(<<"B">>), CustomMapType>>>>,
                <<<<TagDefault(<<"A">>, <<"5">>), IntT>>, <<Tag(<<"B">>), StringT>>>> } }

Decls == ScalarDecls \cup NestedDecls

SeqsUpTo(S, n) == UNION { [1..k -> S] : k \in 1..n }

Configs == { MakeStruct("Config", d, FieldNames) : d \in SeqsUpTo(Decls, MaxFields) }

\* values tests set: "42 7" scans to the int 42 and the string "42"
EnvValues == {<<"4", "2", " ", "7">>, <<"x">>}

\* -------------------------------------------------------------- actions

Idle == [status |-> "idle", isPtr |-> TRUE, type |-> config, before |-> {},
         val |-> Zero(config), err |-> Nil]

Running == call.status # "panicked"

\* a caller declares a zero struct, `cfg := Config{}`, and calls
\* LoadEnv(&cfg), LoadEnv(cfg) or LoadEnv(&n) for an int n
Call(isPtr, type) ==
    LET r == LoadEnv(isPtr, type, Zero(type), tagNames) IN
    /\ Running
    /\ tagNames' = r.names
    /\ call' = [status |-> IF IsPanic(r.err) THEN "panicked" ELSE "returned",
                isPtr |-> isPtr, type |-> type, before |-> tagNames,
                val |-> r.val, err |-> r.err]
    /\ UNCHANGED <<envTypes, environ, config>>

LoadPointer == Call(TRUE, config)
LoadValue == Call(FALSE, config)
LoadIntPointer == Call(TRUE, IntT)

\* os.Setenv(key, value) in the set-up of the next call
Setenv(key, value) ==
    /\ Running
    /\ environ' = [environ EXCEPT ![key] = value]
    /\ call' = Idle
    /\ UNCHANGED <<tagNames, envTypes, config>>

\* clearTestEnv: os.Clearenv() and tagNames = map[string]struct{}{}
clearTestEnv ==
    /\ Running
    /\ environ' = [k \in DOMAIN environ |-> EmptyStr]
    /\ tagNames' = {}
    /\ call' = Idle
    /\ UNCHANGED <<envTypes, config>>

\* RegisterEnvType[T](), at start-up before the next call
RegisterEnvType(tid) ==
    /\ Running
    /\ envTypes' = envTypes \cup {tid}
    /\ call' = Idle
    /\ UNCHANGED <<tagNames, environ, config>>

BuiltinEnvTypes == {"slog.Level"}

InitWith(configs) ==
    /\ tagNames = {}
    /\ envTypes = BuiltinEnvTypes
    /\ environ = [k \in EnvKeys |-> EmptyStr]
    /\ config \in configs
    /\ call = Idle

Init == InitWith(Configs)

Next ==
    \/ LoadPointer
    \/ LoadValue
    \/ LoadIntPointer
    \/ \E k \in EnvKeys, v \in EnvValues : Setenv(k, v)
    \/ clearTestEnv

Spec == Init /\ [][Next]_vars

\* ------------------------------------------------- collections: SpecArr

\* one collection field tagged `env:"A"`: a slice or an array of int
ArrTypes == {SliceT(IntT)} \cup { ArrayT(n, IntT) : n \in 0..MaxCap }

ArrConfigs == { MakeStruct("Config", <<<<Tag(<<"A">>), t>>>>, FieldNames) : t \in ArrTypes }

ElemStrings == {EmptyStr, <<"1">>, <<"2">>, <<"x">>}

RECURSIVE Join(_, _)
Join(elems, sep) ==
    IF Len(elems) = 0 THEN EmptyStr
    ELSE IF Len(elems) = 1 THEN elems[1]
    ELSE elems[1] \o <<sep>> \o Join(Tail(elems), sep)

\* comma-separated lists with and without each bracket
ArrStrings ==
    { open \o Join(elems, ",") \o close :
        open \in {EmptyStr, <<"[">>}, close \in {EmptyStr, <<"]">>},
        elems \in SeqsUpTo(ElemStrings, MaxElems) }

InitArr ==
    /\ tagNames = {}
    /\ envTypes = BuiltinEnvTypes
    /\ config \in ArrConfigs
    /\ \E raw \in ArrStrings : environ = [k \in EnvKeys |-> IF k = <<"A">> THEN raw ELSE EmptyStr]
    /\ call = Idle

NextArr ==
    \/ LoadPointer
    \/ LoadValue
    \/ clearTestEnv

SpecArr == InitArr /\ [][NextArr]_vars

\* ------------------------------------------------------- tags: SpecTag

TagGlyphs == {"A", ";", ":", "default", "optional", "5"}

TagStrings == {EmptyStr} \cup SeqsUpTo(TagGlyphs, MaxTagLen)

TagConfigs == { MakeStruct("Config", <<<<tag, IntT>>>>, FieldNames) : tag \in TagStrings }

InitTag ==
    /\ tagNames = {}
    /\ envTypes = BuiltinEnvTypes
    /\ config \in TagConfigs
    /\ \E v \in {EmptyStr, <<"7">>} :
          environ = [k \in EnvKeys |-> IF k = <<"A">> THEN v ELSE EmptyStr]
    /\ call = Idle

NextTag ==
    \/ LoadPointer
    \/ clearTestEnv

SpecTag == InitTag /\ [][NextTag]_vars

\* ----------------------------------------- registered types: SpecTypes

TypeDecls ==
    { Field("F1", Tag(<<"A">>), t) :
        t \in {IntT, LevelT, DurationT, EndpointT, SliceT(DurationT), ArrayT(2, LevelT)} }
    \cup { Unexported("f1", Tag(<<"A">>), t) : t \in {IntT, EndpointT, SliceT(IntT)} }

TypeConfigs == { StructT("Config", <<f>>) : f \in TypeDecls }

TypeValues == {<<"WARN">>, <<"5", "s">>, <<"7">>, <<"[", "5", "s", "]">>, <<"[", "WARN", "]">>}

UserEnvTypes == {"Duration", "Endpoint"}

InitTypes == InitWith(TypeConfigs)

NextTypes ==
    \/ LoadPointer
    \/ \E v \in TypeValues : Setenv(<<"A">>, v)
    \/ \E tid \in UserEnvTypes : RegisterEnvType(tid)
    \/ clearTestEnv

SpecTypes == InitTypes /\ [][NextTypes]_vars
\* ================================================================ claims

\* the latest call was LoadEnv(&cfg) on the declared struct and has returned
Returned == call.status = "returned" /\ call.isPtr /\ call.type = config

\* the directive set of a tag, parsed against an empty registry
Directive(tag) == tagSliceToKeyMap(FieldsFunc(tag), {}).m

FirstField == config.fields[1]
FirstName == Get(Directive(FirstField.tag), NameKey)

\* the first field is a tagged non-struct field whose name was not in the
\* registry when LoadEnv was called
FirstIsFreshScalar ==
    /\ Returned
    /\ FirstField.type.kind # "struct"
    /\ FirstName # EmptyStr
    /\ FirstName \notin call.before

C9_NotAPointer ==
    (call.status # "idle" /\ (~call.isPtr \/ call.type.kind # "struct")) =>
        /\ call.status = "returned"
        /\ call.err = NotPtrError
        /\ call.val = Zero(call.type)
        /\ tagNames = call.before

\* a struct passed by value whose first field a pointer call would have set
C9_Witness ==
    /\ call.status = "returned"
    /\ ~call.isPtr
    /\ call.type = config
    /\ FirstField.tag = Tag(<<"A">>)
    /\ Getenv(<<"A">>) = <<"4", "2", " ", "7">>
    /\ <<"A">> \notin tagNames
    /\ call.err = NotPtrError

\* ---------------------------------------------------------- C8, C7, C2

NumFields == Len(config.fields)

\* the declared struct cut down to its first j fields
Prefix(j) == StructT(config.tid, SubSeq(config.fields, 1, j))

\* LoadEnv on the first j fields alone, from the registry the call found
LoadPrefix(j) == LoadEnv(TRUE, Prefix(j), Zero(Prefix(j)), call.before)

Min(S) == CHOOSE x \in S : \A y \in S : x <= y

IsScalar(f) == f.type.kind # "struct"

\* a tagged scalar field with neither default nor optional whose variable
\* is not set
MissingRequired(f) ==
    LET d == Directive(f.tag) IN
    /\ IsScalar(f)
    /\ Get(d, NameKey) # EmptyStr
    /\ DefaultKey \notin DOMAIN d
    /\ OptionalKey \notin DOMAIN d
    /\ Getenv(Get(d, NameKey)) = EmptyStr

\* C8: fields are processed in declared order and LoadEnv stops at the
\* first failing one: the error is that of the earliest field that fails,
\* the fields before it keep what LoadEnv set, the fields after it are
\* untouched (neither set nor registered); of several missing required
\* variables the earliest declared one is named.
C8_DeclarationOrder ==
    Returned =>
        LET failing == { j \in 1..NumFields : LoadPrefix(j).err # Nil } IN
        IF failing = {}
        THEN /\ call.err = Nil
             /\ call.val = LoadPrefix(NumFields).val
             /\ \A i \in 1..NumFields : ~MissingRequired(config.fields[i])
        ELSE LET k == Min(failing)
                 r == LoadPrefix(k)
             IN  /\ call.err = r.err
                 /\ tagNames = r.names
                 /\ \A i \in 1..k : call.val[i] = r.val[i]
                 /\ \A i \in 1..(k - 1) : call.val[i] = LoadPrefix(k - 1).val[i]
                 /\ \A i \in (k + 1)..NumFields : call.val[i] = Zero(config.fields[i].type)
                 /\ \A i \in 1..(k - 1) : ~MissingRequired(config.fields[i])
                 /\ (/\ MissingRequired(config.fields[k])
                     /\ Get(Directive(config.fields[k].tag), NameKey) \notin LoadPrefix(k - 1).names)
                        => call.err = EnvNotFoundError(Get(Directive(config.fields[k].tag), NameKey))

\* two required variables are missing: the first declared is reported and
\* the second was never looked at
C8_Witness ==
    /\ Returned
    /\ NumFields = 2
    /\ call.before = {}
    /\ config.fields[1].tag = Tag(<<"B">>)
    /\ config.fields[2].tag = Tag(<<"A">>)
    /\ MissingRequired(config.fields[1])
    /\ MissingRequired(config.fields[2])
    /\ call.err = EnvNotFoundError(<<"B">>)
    /\ tagNames = {<<"B">>}

\* C7: when the nested LoadEnv of a struct-typed field fails, LoadEnv fails
\* with "error loading nested struct '<first inner field>': <cause>", the
\* cause being the nested error unchanged, and no field declared after the
\* nested one is set or registered.
C7_NestedFailure ==
    Returned =>
        \A i \in 1..NumFields :
            LET f == config.fields[i]
                pre == LoadPrefix(i - 1)
                inner == LoadEnv(TRUE, f.type, Zero(f.type), pre.names)
            IN  (/\ f.type.kind = "struct"
                 /\ f.tag = EmptyStr
                 /\ pre.err = Nil
                 /\ inner.err # Nil
                 /\ ~IsPanic(inner.err)) =>
                    /\ call.err # Nil
                    /\ Head(call.err) = [kind |-> "error loading nested struct",
                                         field |-> f.type.fields[1].name]
                    /\ Tail(call.err) = inner.err
                    /\ call.val[i] = inner.val
                    /\ \A j \in (i + 1)..NumFields : call.val[j] = Zero(config.fields[j].type)
                    /\ tagNames = inner.names

\* the nested struct's field cannot be scanned; the sibling declared after
\* it has its variable set and stays zero and unregistered
C7_Witness ==
    /\ Returned
    /\ NumFields = 2
    /\ call.before = {}
    /\ config.fields[1].type.kind = "struct"
    /\ config.fields[1].name = "F1"
    /\ config.fields[2].tag = Tag(<<"A">>)
    /\ Getenv(<<"A">>) = <<"4", "2", " ", "7">>
    /\ call.err = <<[kind |-> "error loading nested struct", field |-> "G1"]>>
                  \o EnvParseError(<<"x">>, <<"B">>, Cause("can't scan type"))
    /\ call.val[2] = 0
    /\ <<"A">> \notin tagNames

RECURSIVE FlatTagged(_)
\* the tags LoadEnv parses, in the order it parses them: each tagged
\* field's name (the tag's first segment) and the field declaring it
FlatTagged(type) ==
    LET RECURSIVE from(_)
        from(i) ==
            IF i > Len(type.fields) THEN <<>>
            ELSE LET f == type.fields[i]
                     toks == FieldsFunc(f.tag)
                     own == IF toks = <<>> THEN <<>>
                            ELSE <<[name |-> toks[1], field |-> f.name]>>
                     inner == IF f.type.kind = "struct" THEN FlatTagged(f.type) ELSE <<>>
                 IN  own \o inner \o from(i + 1)
    IN from(1)

Last(err) == err[Len(err)]

IsDuplicate(err, name) ==
    /\ err # Nil
    /\ Last(err) = [kind |-> "duplicate tag", item |-> name]

\* what a returned LoadEnv(&cfg) leaves in the registry, and how it ended
C2_Registry ==
    Returned =>
        LET P == FlatTagged(config)
            j == Cardinality(tagNames) - Cardinality(call.before)
        IN  /\ j \in 0..Len(P)
            /\ tagNames = call.before \cup { P[i].name : i \in 1..j }
            /\ call.err = Nil => j = Len(P)
            /\ call.err # Nil =>
                 \/ /\ j < Len(P)
                    /\ P[j + 1].name \in tagNames
                    /\ IsDuplicate(call.err, P[j + 1].name)
                    /\ Len(call.err) >= 2
                    /\ call.err[Len(call.err) - 1] =
                           [kind |-> "error getting tags for field", field |-> P[j + 1].field]
                 \/ /\ j >= 1
                    /\ Last(call.err).kind \in {"EnvNotFoundError", "EnvParseError"}
                    /\ Last(call.err).env = P[j].name
            /\ (P # <<>> /\ P[1].name \in call.before) =>
                 /\ IsDuplicate(call.err, P[1].name)
                 /\ tagNames = call.before

\* a LoadEnv(&cfg) that follows a returned LoadEnv(&cfg) of a struct with a
\* tagged field fails on a duplicate; names leave the registry only when
\* it is reset
C2_Step ==
    /\ (/\ Returned
        /\ call'.status = "returned" /\ call'.isPtr /\ call'.type = config
        /\ FlatTagged(config) # <<>>)
          => IsDuplicate(call'.err, FlatTagged(config)[1].name)
    /\ (tagNames \subseteq tagNames') \/ (tagNames' = {} /\ call' = Idle)

\* C2: a name already in the registry when its tag is parsed makes LoadEnv
\* fail with "duplicate tag: <name>" wrapped with the declaring field's
\* name, any other name is added; collisions are caught between siblings
\* and between outer and nested fields, and the registry persists across
\* calls until it is reset, so loading a struct with a tagged field twice
\* fails the second time.
C2_DuplicateNames == []C2_Registry /\ [][C2_Step]_vars

\* the second of two loads of the same struct fails on its first tag, which
\* the first load, though it failed, had registered
C2_Witness ==
    /\ Returned
    /\ NumFields = 2
    /\ config.fields[1].tag = Tag(<<"A">>)
    /\ config.fields[2].tag = Tag(<<"B">>)
    /\ call.before = {<<"A">>}
    /\ call.err = <<[kind |-> "error getting tags for field", field |-> "F1"],
                    [kind |-> "duplicate tag", item |-> <<"A">>]>>
    /\ tagNames = {<<"A">>}

\* ---------------------------------------------------------- C3, C4, C6

\* the collection field of the structs of SpecArr, and the string it gets
ArrField == config.fields[1]
ArrRaw == Getenv(<<"A">>)

\* LoadEnv(&cfg) was called with nothing yet registered and reached the
\* collection field with a non-empty string
ArrLoaded ==
    /\ call.status # "idle"
    /\ call.isPtr
    /\ call.type = config
    /\ call.before = {}
    /\ ArrField.type.kind \in {"slice", "array"}
    /\ ArrRaw # EmptyStr

HasBrackets(raw) == Len(raw) >= 2 /\ raw[1] = "[" /\ raw[Len(raw)] = "]"

\* the comma-separated elements between the brackets of a well-formed string
Elements(raw) == Split(SubSeq(raw, 2, Len(raw) - 1), ",")

\* C3: a string lacking the leading "[" or the trailing "]" makes LoadEnv
\* fail with "invalid array format" and leaves the container as it was.
C3_BothBracketsRequired ==
    (ArrLoaded /\ ~HasBrackets(ArrRaw)) =>
        /\ call.status = "returned"
        /\ call.err = EnvParseError(ArrRaw, <<"A">>, Cause("invalid array format"))
        /\ call.val = Zero(config)

\* C4: for a fixed-size container of capacity n and a well-formed string of
\* m elements: m > n fails with "array size overflow, expected n, got m"
\* and writes no slot; m <= n raises no overflow error and sets the first m
\* slots in order.
C4_ArrayBounds ==
    (ArrLoaded /\ ArrField.type.kind = "array" /\ HasBrackets(ArrRaw)) =>
        LET n == ArrField.type.cap
            elems == Elements(ArrRaw)
            m == Len(elems)
        IN  IF m > n
            THEN /\ call.status = "returned"
                 /\ call.err = EnvParseError(ArrRaw, <<"A">>, Overflow(n, m))
                 /\ call.val = Zero(config)
            ELSE /\ call.status = "returned"
                 /\ \A e \in 1..Len(call.err) : call.err[e].kind = "EnvParseError" =>
                        call.err[e].err.msg # "array size overflow"
                 /\ (\A i \in 1..m : ScanInt(elems[i]).err = Nil) =>
                        /\ call.err = Nil
                        /\ \A i \in 1..m : call.val[1][i] = ScanInt(elems[i]).value
                        /\ \A i \in (m + 1)..n : call.val[1][i] = 0

\* the bounds check restricted to the capacities n >= 1
PositiveCapacityBounds ==
    (ArrField.type.kind = "array" /\ ArrField.type.cap >= 1) => C4_ArrayBounds

\* the elements of a string whose conversion LoadEnv gets to: a well-formed
\* string, for an array one that does not exceed the capacity
ElementsConverted ==
    /\ ArrLoaded
    /\ HasBrackets(ArrRaw)
    /\ ArrField.type.kind = "array" => Len(Elements(ArrRaw)) <= ArrField.type.cap

FailingElements == { i \in 1..Len(Elements(ArrRaw)) : ScanInt(Elements(ArrRaw)[i]).err # Nil }

\* C6 as claimed: the ParseError of a failing element carries the whole
\* bracketed string of the field.
C6_CarriesWholeString ==
    (ElementsConverted /\ FailingElements # {}) =>
        LET k == Min(FailingElements) IN
        call.err = EnvParseError(ArrRaw, <<"A">>, ScanInt(Elements(ArrRaw)[k]).err)

\* C6 as amended: elements are converted in order, the first failing one
\* aborts the operation (later elements are not converted), and the
\* ParseError carries that element's own string, the directive name and
\* the cause.
C6_CarriesElementString ==
    (ElementsConverted /\ FailingElements # {}) =>
        LET elems == Elements(ArrRaw)
            k == Min(FailingElements)
        IN  /\ call.status = "returned"
            /\ call.err = EnvParseError(elems[k], <<"A">>, ScanInt(elems[k]).err)
            /\ \A i \in 1..(k - 1) : call.val[1][i] = ScanInt(elems[i]).value
            /\ \A i \in k..Len(call.val[1]) : call.val[1][i] = 0
            /\ ArrField.type.kind = "slice" => Len(call.val[1]) = Len(elems)

\* "[1,x,2]" into a slice: the 1 is stored, x fails and is what the error
\* carries, the 2 is never converted
C6_Witness ==
    /\ ElementsConverted
    /\ ArrField.type.kind = "slice"
    /\ ArrRaw = <<"[", "1", ",", "x", ",", "2", "]">>
    /\ call.err = EnvParseError(<<"x">>, <<"A">>, Cause("expected integer"))
    /\ call.val[1] = <<1, 0, 0>>

\* a string lacking both brackets is refused
NoBracketRefused ==
    (/\ ArrLoaded
     /\ call.status = "returned"
     /\ ArrRaw[1] # "["
     /\ ArrRaw[Len(ArrRaw)] # "]") =>
        /\ call.err = EnvParseError(ArrRaw, <<"A">>, Cause("invalid array format"))
        /\ call.val = Zero(config)

\* --------------------------------------------------------------- C5, C10

\* LoadEnv(&cfg) has returned for a struct whose one exported field, tagged
\* A, is of a type with a registered unmarshaller that accepts the
\* variable's value
RegisteredAccepted ==
    /\ Returned
    /\ call.before = {}
    /\ FirstField.exported
    /\ FirstField.type.kind \in {"int", "struct"}
    /\ FirstField.type.tid \in envTypes
    /\ Getenv(<<"A">>) # EmptyStr
    /\ Unmarshaller(FirstField.type.tid, Getenv(<<"A">>)).err = Nil

\* C5: a tagged field of a type with a registered converter, scalar kind or
\* struct kind, loaded from a string the converter accepts, holds exactly
\* the value the converter returns.
C5_RegisteredRoundTrip ==
    RegisteredAccepted =>
        /\ call.err = Nil
        /\ call.val[1] = Unmarshaller(FirstField.type.tid, Getenv(<<"A">>)).value

\* the round trip for the registered types of scalar kind
ScalarRoundTrip == FirstField.type.kind # "struct" => C5_RegisteredRoundTrip

\* C10: parsing a tag never aborts: for every tag string LoadEnv returns,
\* with an error or without.
C10_TagParsingTotal == call.status # "panicked"
====
